---- MODULE Spec2Model ----
(***************************************************************************)
(* Citation parsing, document-id resolution, citation validation and       *)
(* citation formatting of the Switzerland Law MCP server.                  *)
(*                                                                         *)
(* A string is a sequence of one-character strings, so that trimming,      *)
(* regular-expression matching and SQL LIKE are computed character by      *)
(* character as the code computes them.                                    *)
(***************************************************************************)
EXTENDS Integers, Sequences, FiniteSets, TLC

VARIABLES db, context, request, response, held,
          clock, lastRequestTime, calls, requests

vars == <<db, context, request, response, held, clock, lastRequestTime, calls, requests>>

\* the state of the ingestion fetcher: Date.now(), the module variable
\* lastRequestTime, the running calls of fetchWithRateLimit and the HTTP
\* requests issued so far
fetcher == <<clock, lastRequestTime, calls, requests>>

\* const MIN_DELAY_MS
MIN_DELAY_MS == 500

\* at most this many calls of fetchWithRateLimit
MaxCalls == 3

\* let lastRequestTime = 0, no call made yet; Date.now() is epoch time, far
\* more than MIN_DELAY_MS
FetcherAtStart ==
  /\ clock = 2 * MIN_DELAY_MS
  /\ lastRequestTime = 0
  /\ calls = [c \in 1..MaxCalls |-> [pc |-> "idle", due |-> 0, attempt |-> 0]]
  /\ requests = {}

(***************************************************************************)
(* Characters                                                              *)
(***************************************************************************)

Digits == {"0", "1", "2", "3", "4", "5", "6", "7", "8", "9"}

UpperSeq == <<"A", "B", "C", "D", "E", "F", "G", "H", "I", "J", "K", "L", "M",
              "N", "O", "P", "Q", "R", "S", "T", "U", "V", "W", "X", "Y", "Z">>

LowerSeq == <<"a", "b", "c", "d", "e", "f", "g", "h", "i", "j", "k", "l", "m",
              "n", "o", "p", "q", "r", "s", "t", "u", "v", "w", "x", "y", "z">>

UpperLetters == {UpperSeq[i] : i \in 1..26}

LowerLetters == {LowerSeq[i] : i \in 1..26}

\* [a-z] under the /i flag: ASCII letters of either case
Letters == UpperLetters \cup LowerLetters

\* \s and String.prototype.trim
WhiteSpace == {" ", "\t", "\n", "\r"}

\* characters the regular-expression dot does not match
LineTerminators == {"\n", "\r"}

LowerMap == [c \in UpperLetters |-> LowerSeq[CHOOSE i \in 1..26 : UpperSeq[i] = c]]

\* ASCII case folding (the /i flag, SQLite LIKE and SQLite LOWER)
ToLowerChar(c) == IF c \in UpperLetters THEN LowerMap[c] ELSE c

ToLower(s) == [i \in 1..Len(s) |-> ToLowerChar(s[i])]

\* the absent string (null / undefined); no string equals it
null == <<"null">>

\* the absent object (a statement.get() without row, a null parse result)
undefined == [undefined |-> TRUE]

(***************************************************************************)
(* String helpers                                                          *)
(***************************************************************************)

\* String.prototype.trim
Trim(s) ==
  IF \A i \in 1..Len(s) : s[i] \in WhiteSpace THEN <<>>
  ELSE LET first == CHOOSE i \in 1..Len(s) :
                      s[i] \notin WhiteSpace /\ \A j \in 1..(i - 1) : s[j] \in WhiteSpace
           last  == CHOOSE i \in 1..Len(s) :
                      s[i] \notin WhiteSpace /\ \A j \in (i + 1)..Len(s) : s[j] \in WhiteSpace
       IN SubSeq(s, first, last)

\* index after the longest run of characters of class cls that starts at i
RunEnd(s, i, cls) ==
  CHOOSE j \in i..(Len(s) + 1) :
    /\ \A m \in i..(j - 1) : s[m] \in cls
    /\ (j <= Len(s) => s[j] \notin cls)

\* the literal lit occurs in s at index i, compared case-insensitively
LitAtCI(s, i, lit) ==
  /\ i >= 1
  /\ i + Len(lit) - 1 <= Len(s)
  /\ \A k \in 1..Len(lit) : ToLowerChar(s[i + k - 1]) = ToLowerChar(lit[k])

\* String.prototype.replace(/\./g, '-')
DotsToDashes(s) == [i \in 1..Len(s) |-> IF s[i] = "." THEN "-" ELSE s[i]]

(***************************************************************************)
(* The regular expressions of parseCitation and formatCitationTool         *)
(***************************************************************************)

\* (?:bis|ter|quater|quinquies|sexies|septies|octies|novies|decies)
LatinSuffixes ==
  { <<"b", "i", "s">>,
    <<"t", "e", "r">>,
    <<"q", "u", "a", "t", "e", "r">>,
    <<"q", "u", "i", "n", "q", "u", "i", "e", "s">>,
    <<"s", "e", "x", "i", "e", "s">>,
    <<"s", "e", "p", "t", "i", "e", "s">>,
    <<"o", "c", "t", "i", "e", "s">>,
    <<"n", "o", "v", "i", "e", "s">>,
    <<"d", "e", "c", "i", "e", "s">> }

\* (?:bis|ter) of format_citation
ShortSuffixes == { <<"b", "i", "s">>, <<"t", "e", "r">> }

\* (?:<suffix>)?[a-z]*$ applied to the letters t that follow the digits
SuffixThenLetters(t, sufs) ==
  \E suf \in {<<>>} \cup sufs :
    /\ LitAtCI(t, 1, suf)
    /\ \A k \in (Len(suf) + 1)..Len(t) : t[k] \in Letters

\* [a-z]*(?:<suffix>)?$ applied to the letters t that follow the digits
LettersThenSuffix(t, sufs) ==
  \E suf \in {<<>>} \cup sufs :
    /\ Len(suf) <= Len(t)
    /\ LitAtCI(t, Len(t) - Len(suf) + 1, suf)
    /\ \A k \in 1..(Len(t) - Len(suf)) : t[k] \in Letters

\* \d+(?:<suffix>)?[a-z]* (suffixFirst) or \d+[a-z]*(?:<suffix>)? matched
\* greedily at index i: the index after the token, 0 when there is no token
MatchToken(s, i, sufs, suffixFirst) ==
  LET d == RunEnd(s, i, Digits)
      e == RunEnd(s, d, Letters)
      t == SubSeq(s, d, e - 1)
  IN IF d > i /\ (IF suffixFirst THEN SuffixThenLetters(t, sufs)
                                 ELSE LettersThenSuffix(t, sufs))
     THEN e ELSE 0

\* Art\.?\s* matched at index i (where "Art" is known to occur): the index after it
ArtPrefixEnd(s, i) ==
  LET a == i + 3
      b == IF a <= Len(s) /\ s[a] = "." THEN a + 1 ELSE a
  IN RunEnd(s, b, WhiteSpace)

NoMatch == [matched |-> FALSE]

\* ^Art\.?\s*(<token>)\s+(.+)$ with flag i
MatchArtFirst(s, sufs, suffixFirst) ==
  IF ~LitAtCI(s, 1, <<"A", "r", "t">>) THEN NoMatch
  ELSE LET i == ArtPrefixEnd(s, 1)
           e == MatchToken(s, i, sufs, suffixFirst)
           \* \s+ is greedy: the longest run of whitespace that leaves a
           \* non-empty rest without line terminators for (.+)$
           K == {k \in (e + 1)..Len(s) :
                   /\ \A m \in e..(k - 1) : s[m] \in WhiteSpace
                   /\ \A m \in k..Len(s) : s[m] \notin LineTerminators}
       IN IF e = 0 \/ K = {} THEN NoMatch
          ELSE LET k == CHOOSE x \in K : \A y \in K : y <= x
               IN [matched |-> TRUE,
                   g1 |-> SubSeq(s, i, e - 1),
                   g2 |-> SubSeq(s, k, Len(s))]

\* [,;]?\s*Art\.?\s*(<token>)$ matched at index p: the index of the token, 0 when no match
ArtTailAt(s, p, sufs, suffixFirst) ==
  LET a == IF p <= Len(s) /\ s[p] \in {",", ";"} THEN p + 1 ELSE p
      b == RunEnd(s, a, WhiteSpace)
  IN IF ~LitAtCI(s, b, <<"A", "r", "t">>) THEN 0
     ELSE LET i == ArtPrefixEnd(s, b)
              e == MatchToken(s, i, sufs, suffixFirst)
          IN IF e = Len(s) + 1 THEN i ELSE 0

\* mutant: the law group is greedy, (.+) instead of (.+?)
MatchArtLast_Greedy(s, sufs, suffixFirst) ==
  LET P == {p \in 2..Len(s) :
              /\ \A m \in 1..(p - 1) : s[m] \notin LineTerminators
              /\ ArtTailAt(s, p, sufs, suffixFirst) # 0}
  IN IF P = {} THEN NoMatch
     ELSE LET p == CHOOSE x \in P : \A y \in P : y <= x
          IN [matched |-> TRUE,
              g1 |-> SubSeq(s, 1, p - 1),
              g2 |-> SubSeq(s, ArtTailAt(s, p, sufs, suffixFirst), Len(s))]

\* ^(.+?)[,;]?\s*Art\.?\s*(<token>)$ with flag i
MatchArtLast(s, sufs, suffixFirst) ==
  LET \* (.+?) is lazy: the shortest non-empty prefix without line
      \* terminators after which the rest of the pattern matches to the end
      P == {p \in 2..Len(s) :
              /\ \A m \in 1..(p - 1) : s[m] \notin LineTerminators
              /\ ArtTailAt(s, p, sufs, suffixFirst) # 0}
  IN IF P = {} THEN NoMatch
     ELSE LET p == CHOOSE x \in P : \A y \in P : x <= y
          IN [matched |-> TRUE,
              g1 |-> SubSeq(s, 1, p - 1),
              g2 |-> SubSeq(s, ArtTailAt(s, p, sufs, suffixFirst), Len(s))]

\* ^SR\s*([\d.]+)\s*[,;]?\s*Art\.?\s*(\d+[a-z]*)$ with flag i
MatchSrWithArt(s) ==
  IF ~LitAtCI(s, 1, <<"S", "R">>) THEN NoMatch
  ELSE LET a == RunEnd(s, 3, WhiteSpace)
           b == RunEnd(s, a, Digits \cup {"."})
           c == RunEnd(s, b, WhiteSpace)
           i == IF b > a THEN ArtTailAt(s, c, {}, TRUE) ELSE 0
       IN IF i = 0 THEN NoMatch
          ELSE [matched |-> TRUE,
                g1 |-> SubSeq(s, a, b - 1),
                g2 |-> SubSeq(s, i, Len(s))]

(***************************************************************************)
(* parseCitation                                                           *)
(***************************************************************************)

\* mutant: the law-first rule is tried before the article-first rule
parseCitation_LawFirstFirst(citation) ==
  LET trimmed   == Trim(citation)
      artFirst  == MatchArtFirst(trimmed, LatinSuffixes, TRUE)
      artLast   == MatchArtLast(trimmed, LatinSuffixes, TRUE)
  IN IF artLast.matched
       THEN [documentRef |-> Trim(artLast.g1), articleRef |-> artLast.g2]
     ELSE IF artFirst.matched
       THEN [documentRef |-> Trim(artFirst.g2), articleRef |-> artFirst.g1]
     ELSE [documentRef |-> trimmed]

\* mutant: the patterns are shared and keep their position between calls
\* (flag g), so that once a call has been answered no pattern matches
parseCitation_StickyPatterns(citation) ==
  LET trimmed   == Trim(citation)
      artFirst  == MatchArtFirst(trimmed, LatinSuffixes, TRUE)
      artLast   == MatchArtLast(trimmed, LatinSuffixes, TRUE)
  IN IF held # undefined THEN [documentRef |-> trimmed]
     ELSE IF artFirst.matched
       THEN [documentRef |-> Trim(artFirst.g2), articleRef |-> artFirst.g1]
     ELSE IF artLast.matched
       THEN [documentRef |-> Trim(artLast.g1), articleRef |-> artLast.g2]
     ELSE [documentRef |-> trimmed]

parseCitation(citation) ==
  LET trimmed   == Trim(citation)
      artFirst  == MatchArtFirst(trimmed, LatinSuffixes, TRUE)
      artLast   == MatchArtLast(trimmed, LatinSuffixes, TRUE)
      srWithArt == MatchSrWithArt(trimmed)
  IN IF artFirst.matched
       THEN [documentRef |-> Trim(artFirst.g2), articleRef |-> artFirst.g1]
     ELSE IF artLast.matched
       THEN [documentRef |-> Trim(artLast.g1), articleRef |-> artLast.g2]
     ELSE IF srWithArt.matched
       THEN [documentRef |-> <<"S", "R", " ">> \o srWithArt.g1, articleRef |-> srWithArt.g2]
     ELSE [documentRef |-> trimmed]

(***************************************************************************)
(* The store: legal_documents, legal_provisions and db_metadata            *)
(***************************************************************************)

RECURSIVE Like(_, _)
\* SQLite "s LIKE pattern": % matches any run of characters, _ matches one
\* character, any other character matches itself up to ASCII letter case
Like(pattern, s) ==
  IF pattern = <<>> THEN s = <<>>
  ELSE IF Head(pattern) = "%"
    THEN \E k \in 0..Len(s) : Like(Tail(pattern), SubSeq(s, k + 1, Len(s)))
  ELSE /\ s # <<>>
       /\ \/ Head(pattern) = "_"
          \/ ToLowerChar(Head(pattern)) = ToLowerChar(Head(s))
       /\ Like(Tail(pattern), Tail(s))

\* the pattern `%${x}%`
Contains(x) == <<"%">> \o x \o <<"%">>

\* statement.get(): the first row, in row order, among the rows (given by
\* their indices hits) that satisfy the WHERE clause; undefined when there
\* is none
FirstRow(rows, hits) ==
  IF hits # {}
  THEN rows[CHOOSE i \in hits : \A j \in hits : i <= j]
  ELSE undefined

(***************************************************************************)
(* generateResponseMetadata                                                *)
(***************************************************************************)

\* mutant: a failed or empty read is surfaced as a freshness field
generateResponseMetadata_FreshnessOnFailure(d) ==
  LET base == [data_source  |-> "Fedlex (fedlex.admin.ch) - Swiss Federal Chancellery",
               jurisdiction |-> "CH",
               disclaimer   |-> "This data is sourced from Fedlex under Open Government Data principles. ..."]
      rows == d.db_metadata.rows
  IN IF d.db_metadata.table /\ \E i \in 1..Len(rows) : rows[i].key = "built_at"
     THEN base @@ [freshness |-> rows[CHOOSE i \in 1..Len(rows) : rows[i].key = "built_at"].value]
     ELSE base @@ [freshness |-> "unknown"]

generateResponseMetadata(d) ==
  LET base == [data_source  |-> "Fedlex (fedlex.admin.ch) - Swiss Federal Chancellery",
               jurisdiction |-> "CH",
               disclaimer   |-> "This data is sourced from Fedlex under Open Government Data principles. ..."]
      IsBuiltAt(r) == r.key = "built_at"
      rows == d.db_metadata.rows
      row == IF d.db_metadata.table
             THEN FirstRow(rows, {i \in 1..Len(rows) : IsBuiltAt(rows[i])})
             ELSE undefined
  IN IF row # undefined THEN base @@ [freshness |-> row.value] ELSE base

(***************************************************************************)
(* resolveDocumentId                                                       *)
(***************************************************************************)

RECURSIVE DottedEnd(_, _)
\* \d+(?:\.\d+)* matched greedily at the digit at index i: the index after it
DottedEnd(s, i) ==
  LET d == RunEnd(s, i, Digits)
  IN IF d + 1 <= Len(s) /\ s[d] = "." /\ s[d + 1] \in Digits
     THEN DottedEnd(s, d + 1)
     ELSE d

\* group 1 of the first match of /(?:SR\s*)?(\d+(?:\.\d+)*)/i in s: the dotted
\* number that starts at the first digit of s; null when s has no digit
SrNumberOf(s) ==
  IF \A i \in 1..Len(s) : s[i] \notin Digits THEN null
  ELSE LET i == CHOOSE x \in 1..Len(s) :
                  s[x] \in Digits /\ \A y \in 1..(x - 1) : s[y] \notin Digits
       IN SubSeq(s, i, DottedEnd(s, i) - 1)

\* mutant: the direct match compares with LIKE instead of =
DirectMatch_ByLike(d, trimmed) ==
  LET W(r) == Like(Contains(trimmed), r.id)
  IN FirstRow(d.legal_documents, {i \in 1..Len(d.legal_documents) : W(d.legal_documents[i])})

\* WHERE id = ?
DirectMatch(d, trimmed) ==
  LET W(r) == r.id = trimmed
  IN FirstRow(d.legal_documents, {i \in 1..Len(d.legal_documents) : W(d.legal_documents[i])})

\* WHERE id LIKE ? OR short_name LIKE ? LIMIT 1
SrResult(d, srNumber) ==
  LET W(r) == \/ Like(Contains(<<"s", "r", "-">> \o DotsToDashes(srNumber)), r.id)
              \/ Like(Contains(srNumber), r.short_name)
  IN FirstRow(d.legal_documents, {i \in 1..Len(d.legal_documents) : W(d.legal_documents[i])})

\* WHERE title LIKE ? OR short_name LIKE ? OR title_en LIKE ? LIMIT 1
TitleResult(d, trimmed) ==
  LET W(r) == \/ Like(Contains(trimmed), r.title)
              \/ Like(Contains(trimmed), r.short_name)
              \/ Like(Contains(trimmed), r.title_en)
  IN FirstRow(d.legal_documents, {i \in 1..Len(d.legal_documents) : W(d.legal_documents[i])})

\* WHERE LOWER(title) LIKE LOWER(?) OR LOWER(short_name) LIKE LOWER(?)
\*    OR LOWER(title_en) LIKE LOWER(?) LIMIT 1
LowerResult(d, trimmed) ==
  LET W(r) == \/ Like(ToLower(Contains(trimmed)), ToLower(r.title))
              \/ Like(ToLower(Contains(trimmed)), ToLower(r.short_name))
              \/ Like(ToLower(Contains(trimmed)), ToLower(r.title_en))
  IN FirstRow(d.legal_documents, {i \in 1..Len(d.legal_documents) : W(d.legal_documents[i])})

\* mutant: the numeric-identifier step is left out
resolveDocumentId_NoNumericStep(d, input) ==
  LET trimmed     == Trim(input)
      directMatch == DirectMatch(d, trimmed)
      titleResult == TitleResult(d, trimmed)
      lowerResult == LowerResult(d, trimmed)
  IN IF trimmed = <<>> THEN null
     ELSE IF directMatch # undefined THEN directMatch.id
     ELSE IF titleResult # undefined THEN titleResult.id
     ELSE IF lowerResult # undefined THEN lowerResult.id
     ELSE null

resolveDocumentId(d, input) ==
  LET trimmed     == Trim(input)
      directMatch == DirectMatch(d, trimmed)
      srNumber    == SrNumberOf(trimmed)
      srResult    == IF srNumber # null THEN SrResult(d, srNumber) ELSE undefined
      titleResult == TitleResult(d, trimmed)
      lowerResult == LowerResult(d, trimmed)
  IN IF trimmed = <<>> THEN null
     ELSE IF directMatch # undefined THEN directMatch.id
     ELSE IF srResult # undefined THEN srResult.id
     ELSE IF titleResult # undefined THEN titleResult.id
     ELSE IF lowerResult # undefined THEN lowerResult.id
     ELSE null

(***************************************************************************)
(* validateCitationTool                                                    *)
(***************************************************************************)

Warning(text, arg1, arg2) == [text |-> text, arg1 |-> arg1, arg2 |-> arg2]

CouldNotParse == Warning("Could not parse citation format", <<>>, <<>>)

DocumentNotFound(documentRef) == Warning("Document not found: \"${1}\"", documentRef, <<>>)

RepealedWarning == Warning("WARNING: This statute has been repealed.", <<>>, <<>>)

AmendedNote ==
  Warning("Note: This statute has been amended. Verify you are referencing the current version.",
          <<>>, <<>>)

ProvisionNotFound(articleRef, title) ==
  Warning("Provision \"${1}\" not found in ${2}", articleRef, title)

\* mutant: a document not yet in force is flagged like a repealed one
StatusWarnings_NotYetInForce(status) ==
  IF status = "repealed" \/ status = "not_yet_in_force" THEN <<RepealedWarning>>
  ELSE IF status = "amended" THEN <<AmendedNote>>
  ELSE <<>>

\* the warnings pushed for the status of the resolved document
StatusWarnings(status) ==
  IF status = "repealed" THEN <<RepealedWarning>>
  ELSE IF status = "amended" THEN <<AmendedNote>>
  ELSE <<>>

\* WHERE document_id = ? AND (provision_ref = ? OR provision_ref = ? OR section = ?)
FindProvision(d, docId, articleRef) ==
  LET W(r) == /\ r.document_id = docId
              /\ \/ r.provision_ref = articleRef
                 \/ r.provision_ref = <<"a", "r", "t">> \o articleRef
                 \/ r.section = articleRef
  IN FirstRow(d.legal_provisions, {i \in 1..Len(d.legal_provisions) : W(d.legal_provisions[i])})

\* SELECT id, title, status FROM legal_documents WHERE id = ?
GetDocument(d, docId) ==
  LET W(r) == r.id = docId
  IN FirstRow(d.legal_documents, {i \in 1..Len(d.legal_documents) : W(d.legal_documents[i])})

\* the result when parseCitation returns null
UnparseableResult(input) ==
  [valid |-> FALSE, citation |-> input.citation, warnings |-> <<CouldNotParse>>]

\* mutant: an unresolved reference is reported as a parse failure
NotFoundResult_AsUnparseable(input, parsed) ==
  [valid |-> FALSE, citation |-> input.citation, warnings |-> <<CouldNotParse>>]

\* the result when the document reference does not resolve
NotFoundResult(input, parsed) ==
  [valid |-> FALSE, citation |-> input.citation,
   warnings |-> <<DocumentNotFound(parsed.documentRef)>>]

\* mutant: the status warnings are dropped when the provision is missing
ProvisionMissingResult_DropsWarnings(input, parsed, docId, doc, warnings) ==
  [valid |-> FALSE, citation |-> input.citation,
   document_id |-> docId, document_title |-> doc.title,
   warnings |-> <<ProvisionNotFound(parsed.articleRef, doc.title)>>]

\* the result when the document has no provision for the article
ProvisionMissingResult(input, parsed, docId, doc, warnings) ==
  [valid |-> FALSE, citation |-> input.citation,
   document_id |-> docId, document_title |-> doc.title,
   warnings |-> warnings \o <<ProvisionNotFound(parsed.articleRef, doc.title)>>]

\* mutant: the normalized citation carries the stored provision reference
ProvisionResult_StoredRef(input, parsed, docId, doc, provision, warnings) ==
  [valid |-> TRUE, citation |-> input.citation,
   normalized |-> <<"A", "r", "t", ".", " ">> \o provision.provision_ref \o <<" ">> \o doc.title,
   document_id |-> docId, document_title |-> doc.title,
   provision_ref |-> provision.provision_ref,
   status |-> doc.status, warnings |-> warnings]

\* the result for a citation of an existing provision
ProvisionResult(input, parsed, docId, doc, provision, warnings) ==
  [valid |-> TRUE, citation |-> input.citation,
   normalized |-> <<"A", "r", "t", ".", " ">> \o parsed.articleRef \o <<" ">> \o doc.title,
   document_id |-> docId, document_title |-> doc.title,
   provision_ref |-> provision.provision_ref,
   status |-> doc.status, warnings |-> warnings]

\* the result for a citation of a document without article
DocumentResult(input, docId, doc, warnings) ==
  [valid |-> TRUE, citation |-> input.citation,
   normalized |-> doc.title,
   document_id |-> docId, document_title |-> doc.title,
   status |-> doc.status, warnings |-> warnings]

\* the result for a reference that resolved to the document docId
ResolvedResult(d, input, parsed, docId) ==
  LET doc       == GetDocument(d, docId)
      warnings  == StatusWarnings(doc.status)
      provision == FindProvision(d, docId, parsed.articleRef)
  IN IF "articleRef" \in DOMAIN parsed THEN
       IF provision = undefined
       THEN ProvisionMissingResult(input, parsed, docId, doc, warnings)
       ELSE ProvisionResult(input, parsed, docId, doc, provision, warnings)
     ELSE DocumentResult(input, docId, doc, warnings)

\* the result for a parsed citation whose document reference resolves to docId
ParsedResult(d, input, parsed, docId) ==
  IF parsed = undefined THEN UnparseableResult(input)
  ELSE IF docId = null THEN NotFoundResult(input, parsed)
  ELSE ResolvedResult(d, input, parsed, docId)

\* the lookups of a citation that parsed to parsed
CitationResult(d, input, parsed) ==
  ParsedResult(d, input, parsed, resolveDocumentId(d, parsed.documentRef))

validateCitationTool(d, input) ==
  [results   |-> CitationResult(d, input, parseCitation(input.citation)),
   _metadata |-> generateResponseMetadata(d)]

(***************************************************************************)
(* formatCitationTool                                                      *)
(***************************************************************************)

\* law.split('(')[0].trim()
BeforeParen(law) ==
  IF \E i \in 1..Len(law) : law[i] = "("
  THEN Trim(SubSeq(law, 1, (CHOOSE i \in 1..Len(law) :
                              law[i] = "(" /\ \A j \in 1..(i - 1) : law[j] # "(") - 1))
  ELSE Trim(law)

\* mutant: the law-first pattern is preferred to the article-first pattern
formatCitationTool_LawFirstPreferred(input) ==
  LET format   == IF "format" \in DOMAIN input THEN input.format ELSE "full"
      trimmed  == Trim(input.citation)
      artFirst == MatchArtFirst(trimmed, ShortSuffixes, FALSE)
      artLast  == MatchArtLast(trimmed, ShortSuffixes, FALSE)
      article  == IF artLast.matched THEN artLast.g2
                  ELSE IF artFirst.matched THEN artFirst.g1 ELSE null
      law      == IF artLast.matched THEN artLast.g1
                  ELSE IF artFirst.matched THEN artFirst.g2 ELSE trimmed
      art      == <<"A", "r", "t", ".", " ">> \o article
      formatted ==
        IF format = "short" THEN
          IF article # null THEN art \o <<" ">> \o BeforeParen(law) ELSE law
        ELSE IF format = "pinpoint" THEN
          IF article # null THEN art ELSE law
        ELSE
          IF article # null THEN art \o <<" ">> \o law ELSE law
  IN [original |-> input.citation, formatted |-> formatted, format |-> format]

formatCitationTool(input) ==
  LET format   == IF "format" \in DOMAIN input THEN input.format ELSE "full"
      trimmed  == Trim(input.citation)
      artFirst == MatchArtFirst(trimmed, ShortSuffixes, FALSE)
      artLast  == MatchArtLast(trimmed, ShortSuffixes, FALSE)
      article  == IF artFirst.matched THEN artFirst.g1
                  ELSE IF artLast.matched THEN artLast.g2 ELSE null
      law      == IF artFirst.matched THEN artFirst.g2
                  ELSE IF artLast.matched THEN artLast.g1 ELSE trimmed
      art      == <<"A", "r", "t", ".", " ">> \o article
      formatted ==
        IF format = "short" THEN
          IF article # null THEN art \o <<" ">> \o BeforeParen(law) ELSE law
        ELSE IF format = "pinpoint" THEN
          IF article # null THEN art ELSE law
        ELSE
          IF article # null THEN art \o <<" ">> \o law ELSE law
  IN [original |-> input.citation, formatted |-> formatted, format |-> format]

(***************************************************************************)
(* Ingestion: the rows the store holds for an act                          *)
(***************************************************************************)

\* extractAbbreviation: the abbreviation in the closing parenthesis of a
\* title, '' when there is none (ASCII letters; umlauts are not modelled)
extractAbbreviation(title) ==
  LET n == IF \A i \in 1..Len(title) : title[i] \in WhiteSpace THEN 0
           ELSE CHOOSE i \in 1..Len(title) :
                  title[i] \notin WhiteSpace /\ \A j \in (i + 1)..Len(title) : title[j] \in WhiteSpace
      \* the letters in front of the closing parenthesis
      g == CHOOSE x \in 1..n :
             /\ \A m \in x..(n - 1) : title[m] \in Letters
             /\ (x > 1 => title[x - 1] \notin Letters)
      group == SubSeq(title, g, n - 1)
      \* the whitespace in front of them
      w == CHOOSE x \in 1..g :
             /\ \A m \in x..(g - 1) : title[m] \in WhiteSpace
             /\ (x > 1 => title[x - 1] \notin WhiteSpace)
      closing == n >= 1 /\ title[n] = ")"
      afterParen == g > 1 /\ title[g - 1] = "("
      afterComma == w > 1 /\ title[w - 1] = ","
      \* \((?:[^,]+,\s*)?([A-Z][A-Za-z]{1,10})\)\s*$
      match  == /\ closing
                /\ Len(group) \in 2..11
                /\ group[1] \in UpperLetters
                /\ \/ afterParen
                   \/ /\ afterComma
                      /\ \E q \in 1..(w - 3) :
                           title[q] = "(" /\ \A m \in (q + 1)..(w - 2) : title[m] # ","
      \* ,\s*([A-Z]{2,10})\)\s*$
      match2 == /\ closing
                /\ Len(group) \in 2..10
                /\ \A m \in 1..Len(group) : group[m] \in UpperLetters
                /\ afterComma
  IN IF match THEN group ELSE IF match2 THEN group ELSE <<>>

\* censusEntryToAct: the act index entry of a census entry
censusEntryToAct(entry) ==
  [srNumber     |-> entry.sr_number,
   title        |-> entry.title,
   titleEn      |-> entry.title_en,
   abbreviation |-> extractAbbreviation(entry.title),
   articles     |-> entry.articles]

\* parseFedlexHtml, provisions.push: the provision row of article number articleNum
ParsedProvision(articleNum) ==
  LET normalizedNum == SelectSeq(articleNum, LAMBDA c : c # "_")
  IN [provision_ref |-> <<"a", "r", "t">> \o normalizedNum, section |-> normalizedNum]

\* parseFedlexHtml, return value: the document row of an act
ParsedAct(act, status) ==
  [id         |-> <<"s", "r", "-">> \o DotsToDashes(act.srNumber),
   title      |-> act.title,
   title_en   |-> act.titleEn,
   short_name |-> act.abbreviation,
   status     |-> status]

\* LegalDocument.status
Statuses == {"in_force", "amended", "repealed", "not_yet_in_force"}

(***************************************************************************)
(* Bounds and the inputs of the model                                      *)
(***************************************************************************)

\* at most this many documents in the store
MaxDocs == 2

\* at most this many documents of the store have a status other than in_force
MaxNotInForce == 1

\* The articles field of an entry stands for the <article> elements of the
\* act's HTML page (their art_ ids).

\* an entry in the style of KEY_SWISS_ACTS (sr-220, OR): the abbreviation
\* occurs neither in the title nor in the English title
ActOR ==
  [srNumber |-> <<"2">>, title |-> <<"R", "e", "c", "h", "t">>,
   titleEn |-> <<"C", "o", "d", "e">>, abbreviation |-> <<"O", "R">>,
   articles |-> <<<<"6">>, <<"6", "b", "i", "s">>>>]

\* census entries
CensusNG ==
  [sr_number |-> <<"2", "2">>, title |-> <<"N", "o", "r", "m", " ", "(", "N", "G", ")">>,
   title_en |-> <<"N", "o", "r", "m", "s">>, articles |-> <<<<"6">>>>]

CensusZu ==
  [sr_number |-> <<"1", ".", "2">>, title |-> <<"Z", "u", " ", "A", "r", "t", ".", " ", "5">>,
   title_en |-> <<>>, articles |-> <<<<"6", "_", "b", "i", "s">>>>]

\* the acts a store is built from
Catalogue == {ActOR, censusEntryToAct(CensusNG), censusEntryToAct(CensusZu)}

RECURSIVE ActSeqs(_)
\* the sequences of n pairwise distinct acts of the catalogue (the row order)
ActSeqs(n) ==
  IF n = 0 THEN {<<>>}
  ELSE {Append(q, a) : q \in ActSeqs(n - 1), a \in Catalogue} \cup ActSeqs(n - 1)

DistinctActSeqs ==
  {q \in ActSeqs(MaxDocs) : \A i, j \in 1..Len(q) : q[i] = q[j] => i = j}

\* the provision rows of the acts of q, in insertion order
RECURSIVE ProvisionRows(_)
ProvisionRows(q) ==
  IF q = <<>> THEN <<>>
  ELSE LET a == Head(q)
           id == <<"s", "r", "-">> \o DotsToDashes(a.srNumber)
       IN [i \in 1..Len(a.articles) |->
             ParsedProvision(a.articles[i]) @@ [document_id |-> id]]
          \o ProvisionRows(Tail(q))

\* the states of the db_metadata table: absent, empty, holding built_at
MetadataTables ==
  { [table |-> FALSE, rows |-> <<>>],
    [table |-> TRUE, rows |-> <<>>],
    [table |-> TRUE, rows |-> <<[key |-> "built_at", value |-> "2026-02-22T00:00:00Z"]>>] }

\* the number of documents of the status assignment f that are not in force
NotInForce(f) == Cardinality({i \in DOMAIN f : f[i] # "in_force"})

\* the store contents: the acts of q in row order under every status
\* assignment, with the db_metadata table varied for the stores whose
\* documents are all in force and holding built_at for the others
Stores ==
  UNION { UNION { { [legal_documents  |-> [i \in 1..Len(q) |-> ParsedAct(q[i], st[i])],
                     legal_provisions |-> ProvisionRows(q),
                     db_metadata      |-> m] :
                      m \in {t \in MetadataTables : NotInForce(st) = 0 \/ t.rows # <<>>} } :
                  st \in {f \in [1..Len(q) -> Statuses] : NotInForce(f) <= MaxNotInForce} } :
          q \in DistinctActSeqs }


\* the article tokens of the citations
Tokens == { <<"6">>, <<"6", "b", "i", "s">>, <<"7">> }

\* the law references of the citations: ids, SR numbers, abbreviations,
\* titles and fragments of them, and references that name nothing
LawRefs ==
  { <<"s", "r", "-", "2">>,
    <<"s", "r", "-", "2", "2">>,
    <<"s", "r", "-", "1", "-", "2">>,
    <<"S", "R", " ", "2">>,
    <<"S", "R", "-", "2">>,
    <<"2", "2">>,
    <<"O", "R">>,
    <<"o", "r">>,
    <<"N", "G">>,
    <<"R", "e", "c", "h", "t">>,
    <<"Z", "u", " ", "A", "r", "t", ".", " ", "5">>,
    <<"X", "Y">>,
    <<"X", "2">>,
    <<"N", "_", "r", "m">>,
    <<>>,
    <<"C", "o", "d", "e", " ", "(", "C", "O", ")">> }

\* "Art. N L"
ArticleFirst(N, L) == <<"A", "r", "t", ".", " ">> \o N \o <<" ">> \o L

\* "L, Art. N"
LawFirstComma(L, N) == L \o <<",", " ", "A", "r", "t", ".", " ">> \o N

\* "L Art. N"
LawFirst(L, N) == L \o <<" ", "A", "r", "t", ".", " ">> \o N

\* the citations sent to validate_citation
Citations ==
  LawRefs \cup {<<" ", " ">>}
    \cup {ArticleFirst(N, L) : N \in Tokens, L \in LawRefs}
    \cup {LawFirstComma(L, N) : N \in Tokens, L \in LawRefs}

\* FormatCitationInput.format
Formats == {"full", "short", "pinpoint"}

(***************************************************************************)
(* The server: a store opened once, and tool calls against it              *)
(***************************************************************************)

NoRequest == [tool |-> "none"]

Init ==
  /\ db \in Stores
  /\ context = undefined
  /\ request = NoRequest
  /\ response = undefined
  /\ held = null
  /\ FetcherAtStart

\* a caller resolves a document reference (get_provision, check_currency, ...)
ResolveDocumentId(input) ==
  /\ request = NoRequest
  /\ request' = [tool |-> "resolveDocumentId", arguments |-> [input |-> input]]
  /\ response' = [id |-> resolveDocumentId(db, input)]
  /\ held' = null
  /\ UNCHANGED <<fetcher, db, context>>

\* case 'validate_citation' of the call-tool handler; the client keeps the
\* normalized citation of the result, if there is one
ValidateCitation(citation) ==
  /\ request = NoRequest
  /\ request' = [tool |-> "validate_citation", arguments |-> [citation |-> citation]]
  /\ response' = validateCitationTool(db, [citation |-> citation])
  /\ held' = IF "normalized" \in DOMAIN response'.results
             THEN response'.results.normalized ELSE null
  /\ UNCHANGED <<fetcher, db, context>>

\* case 'format_citation' of the call-tool handler, called with the
\* normalized citation of the validate_citation result just returned
FormatCitation(format) ==
  /\ request.tool = "validate_citation"
  /\ held # null
  /\ request' = [tool |-> "format_citation",
                 arguments |-> [citation |-> held, format |-> format]]
  /\ response' = formatCitationTool([citation |-> held, format |-> format])
  /\ UNCHANGED <<fetcher, db, context, held>>

\* the response is delivered and the server waits for the next request
Return ==
  /\ request # NoRequest
  /\ request' = NoRequest
  /\ response' = undefined
  /\ held' = null
  /\ UNCHANGED <<fetcher, db, context>>

Next ==
  \/ \E input \in LawRefs : ResolveDocumentId(input)
  \/ \E citation \in Citations : ValidateCitation(citation)
  \/ \E format \in Formats : FormatCitation(format)
  \/ Return

Spec == Init /\ [][Next]_vars

(***************************************************************************)
(* Properties of the server                                                *)
(***************************************************************************)

IsResolveCall == request.tool = "resolveDocumentId"

IsValidateCall == request.tool = "validate_citation"

IsFormatCall == request.tool = "format_citation"

\* the rows of legal_documents and of legal_provisions
Documents == {db.legal_documents[i] : i \in 1..Len(db.legal_documents)}

Provisions == {db.legal_provisions[i] : i \in 1..Len(db.legal_provisions)}

\* the provisions of document id that match the article token under one of
\* the three encodings
Matching(id, token) ==
  {p \in Provisions :
     /\ p.document_id = id
     /\ \/ p.provision_ref = token
        \/ p.provision_ref = <<"a", "r", "t">> \o token
        \/ p.section = token}

\* x occurs in s as a substring
Occurs(x, s) ==
  \E k \in 0..(Len(s) - Len(x)) : SubSeq(s, k + 1, k + Len(x)) = x

\* the result of a validate_citation call for an unresolved reference ref
IsUnresolvedResult(ref) ==
  /\ response.results.valid = FALSE
  /\ response.results.warnings = <<DocumentNotFound(ref)>>
  /\ DOMAIN response.results = {"valid", "citation", "warnings"}

\* C1: resolveDocumentId applied to the id of a document of the store
\* returns that id, whatever the other documents are.
C1_ExactIdReflexive ==
  (IsResolveCall /\ \E D \in Documents : D.id = request.arguments.input)
    => response.id = request.arguments.input

\* the id of the second row was resolved although the id of the first row contains it
C1_Witness ==
  /\ IsResolveCall
  /\ Len(db.legal_documents) >= 2
  /\ request.arguments.input = db.legal_documents[2].id
  /\ Occurs(request.arguments.input, db.legal_documents[1].id)
  /\ response.id = request.arguments.input

\* C2: validate_citation of "Art. " + article + " " + D.shortName, for a
\* provision of a document D that has a short name, returns valid=true with
\* document_id = D.id.
C2_ShortNameCitationValid ==
  \A D \in Documents : \A p \in Provisions :
    (/\ IsValidateCall
     /\ p.document_id = D.id
     /\ D.short_name # <<>>
     /\ request.arguments.citation = ArticleFirst(p.section, D.short_name))
      => /\ response.results.valid = TRUE
         /\ response.results.document_id = D.id

\* C3 as stated: a reference that equals no id and occurs in no title, short
\* name or English title yields the document-not-found result.
C3_Original ==
  LET ref == parseCitation(request.arguments.citation).documentRef
  IN (/\ IsValidateCall
      /\ \A D \in Documents :
           /\ D.id # ref
           /\ ~Occurs(ref, D.title)
           /\ ~Occurs(ref, D.short_name)
           /\ ~Occurs(ref, D.title_en))
       => IsUnresolvedResult(ref)

\* the reference matches no document in any step of the resolver: it equals
\* no id, its first dotted number (if any) occurs neither, in sr- form, in an
\* id nor in a short name, and as a LIKE fragment it matches no title, short
\* name or English title
NamesNoDocument(ref) ==
  \A D \in Documents :
    /\ D.id # ref
    /\ SrNumberOf(ref) # null =>
         /\ ~Like(Contains(<<"s", "r", "-">> \o DotsToDashes(SrNumberOf(ref))), D.id)
         /\ ~Like(Contains(SrNumberOf(ref)), D.short_name)
    /\ ~Like(Contains(ref), D.title)
    /\ ~Like(Contains(ref), D.short_name)
    /\ ~Like(Contains(ref), D.title_en)

\* C3 (amended): a reference that matches no document in any step of the
\* resolver yields valid=false with the document-not-found warning naming the
\* reference and no document_id, document_title, normalized or status.
C3_UnresolvedReference ==
  LET ref == parseCitation(request.arguments.citation).documentRef
  IN (IsValidateCall /\ NamesNoDocument(ref)) => IsUnresolvedResult(ref)

\* an article citation of an unknown law against a store with documents
C3_Witness ==
  /\ IsValidateCall
  /\ db.legal_documents # <<>>
  /\ "articleRef" \in DOMAIN parseCitation(request.arguments.citation)
  /\ parseCitation(request.arguments.citation).documentRef = <<"X", "Y">>
  /\ IsUnresolvedResult(<<"X", "Y">>)

\* C4: when the reference resolves but no provision of the document matches
\* the article token, the result is valid=false with the document's id and
\* title and with the status warning (if any) followed by the
\* provision-not-found warning.
C4_ProvisionNotFound ==
  LET parsed == parseCitation(request.arguments.citation)
      docId  == resolveDocumentId(db, parsed.documentRef)
  IN (/\ IsValidateCall
      /\ "articleRef" \in DOMAIN parsed
      /\ docId # null
      /\ Matching(docId, parsed.articleRef) = {})
       => \E D \in Documents :
            /\ D.id = docId
            /\ response.results.valid = FALSE
            /\ response.results.document_id = D.id
            /\ response.results.document_title = D.title
            /\ "normalized" \notin DOMAIN response.results
            /\ response.results.warnings =
                 (IF D.status = "repealed" THEN <<RepealedWarning>>
                  ELSE IF D.status = "amended" THEN <<AmendedNote>>
                  ELSE <<>>)
                 \o <<ProvisionNotFound(parsed.articleRef, D.title)>>

\* a missing article of a repealed document
C4_Witness ==
  /\ IsValidateCall
  /\ "document_id" \in DOMAIN response.results
  /\ response.results.valid = FALSE
  /\ Len(response.results.warnings) = 2
  /\ response.results.warnings[1] = RepealedWarning

\* C7: a citation that is empty after trimming yields valid=false with
\* exactly the warning "Could not parse citation format".
C7_EmptyCitationUnparseable ==
  (IsValidateCall /\ Trim(request.arguments.citation) = <<>>)
    => /\ response.results.valid = FALSE
       /\ response.results.warnings = <<CouldNotParse>>

\* the store with the status of document id replaced by st
WithStatus(d, id, st) ==
  [d EXCEPT !.legal_documents =
     [i \in 1..Len(d.legal_documents) |->
        IF d.legal_documents[i].id = id
        THEN [d.legal_documents[i] EXCEPT !.status = st]
        ELSE d.legal_documents[i]]]

\* the number of occurrences of warning w in the sequence ws
Count(ws, w) == Cardinality({i \in 1..Len(ws) : ws[i] = w})

\* C8: the status of the resolved document never changes the valid flag:
\* repealed adds exactly one repeal warning, amended exactly one advisory,
\* any other status none, and valid is true exactly when no article was
\* cited or the cited provision exists.
C8_StatusNeverInvalidates ==
  LET parsed == parseCitation(request.arguments.citation)
      docId  == resolveDocumentId(db, parsed.documentRef)
      ws     == response.results.warnings
  IN (IsValidateCall /\ docId # null)
       => /\ response.results.valid =
               ("articleRef" \notin DOMAIN parsed \/ Matching(docId, parsed.articleRef) # {})
          /\ \A D \in Documents : D.id = docId =>
               /\ Count(ws, RepealedWarning) = (IF D.status = "repealed" THEN 1 ELSE 0)
               /\ Count(ws, AmendedNote) = (IF D.status = "amended" THEN 1 ELSE 0)
               /\ Len(ws) = (IF D.status \in {"repealed", "amended"} THEN 1 ELSE 0)
                              + (IF response.results.valid THEN 0 ELSE 1)
          /\ \A st \in Statuses :
               validateCitationTool(WithStatus(db, docId, st), request.arguments).results.valid
                 = response.results.valid

\* a valid citation of a provision of a repealed document
C8_Witness ==
  /\ IsValidateCall
  /\ response.results.valid = TRUE
  /\ "provision_ref" \in DOMAIN response.results
  /\ response.results.status = "repealed"
  /\ response.results.warnings = <<RepealedWarning>>

\* C9: a valid result carries document_id, document_title, status and
\* normalized; normalized is "Art. <token> <title>" and provision_ref the
\* stored reference of a matching provision when an article was cited, and
\* the bare title otherwise; an invalid result carries no normalized field
\* and at least one warning.
C9_ResultShape ==
  LET parsed == parseCitation(request.arguments.citation)
      r      == response.results
  IN IsValidateCall =>
       IF r.valid
       THEN /\ {"document_id", "document_title", "status", "normalized"} \subseteq DOMAIN r
            /\ \E D \in Documents :
                 /\ D.id = r.document_id
                 /\ D.title = r.document_title
                 /\ D.status = r.status
            /\ IF "articleRef" \in DOMAIN parsed
               THEN /\ r.normalized = <<"A", "r", "t", ".", " ">> \o parsed.articleRef
                                        \o <<" ">> \o r.document_title
                    /\ "provision_ref" \in DOMAIN r
                    /\ \E p \in Matching(r.document_id, parsed.articleRef) :
                         p.provision_ref = r.provision_ref
               ELSE /\ r.normalized = r.document_title
                    /\ "provision_ref" \notin DOMAIN r
       ELSE /\ "normalized" \notin DOMAIN r
            /\ Len(r.warnings) >= 1

\* a valid article citation whose token differs from the stored reference
C9_Witness ==
  /\ IsValidateCall
  /\ response.results.valid = TRUE
  /\ "provision_ref" \in DOMAIN response.results
  /\ response.results.provision_ref
       = <<"a", "r", "t">> \o parseCitation(request.arguments.citation).articleRef

\* C10: format_citation in format "full" reproduces a normalized citation
\* returned by validate_citation.
C10_NormalizedRoundTrip ==
  (IsFormatCall /\ request.arguments.format = "full")
    => response.formatted = request.arguments.citation

\* the indices of the rows of legal_documents that step n of the resolver
\* matches for the trimmed input t: 1 exact id, 2 numeric identifier,
\* 3 substring, 4 case-insensitive substring
StepHits(n, t) ==
  LET rows == db.legal_documents
      num  == SrNumberOf(t)
  IN {i \in 1..Len(rows) :
        IF n = 1 THEN rows[i].id = t
        ELSE IF n = 2 THEN
          /\ num # null
          /\ \/ Like(Contains(<<"s", "r", "-">> \o DotsToDashes(num)), rows[i].id)
             \/ Like(Contains(num), rows[i].short_name)
        ELSE IF n = 3 THEN
          \/ Like(Contains(t), rows[i].title)
          \/ Like(Contains(t), rows[i].short_name)
          \/ Like(Contains(t), rows[i].title_en)
        ELSE
          \/ Like(Contains(ToLower(t)), ToLower(rows[i].title))
          \/ Like(Contains(ToLower(t)), ToLower(rows[i].short_name))
          \/ Like(Contains(ToLower(t)), ToLower(rows[i].title_en))}

\* the steps that match some row
MatchingSteps(t) == {n \in 1..4 : StepHits(n, t) # {}}

\* the smallest element of a non-empty set of numbers
Least(S) == CHOOSE x \in S : \A y \in S : x <= y

SubstringRank(D, t) ==
  IF Occurs(t, D.title) THEN 1
  ELSE IF Occurs(t, D.short_name) THEN 2
  ELSE IF Occurs(t, D.title_en) THEN 3
  ELSE IF Occurs(ToLower(t), ToLower(D.title)) THEN 4
  ELSE IF Occurs(ToLower(t), ToLower(D.short_name)) THEN 5
  ELSE IF Occurs(ToLower(t), ToLower(D.title_en)) THEN 6
  ELSE 7

\* C12: when the substring steps decide, the document returned is one whose
\* match is the best in the store: a title match before a short-name match
\* before an English-title match, each as written before up to letter case,
\* whatever the row order is.
C12_SubstringPriority ==
  LET t == Trim(request.arguments.input)
  IN (/\ IsResolveCall
      /\ t # <<>>
      /\ StepHits(1, t) = {}
      /\ StepHits(2, t) = {}
      /\ \E D \in Documents : SubstringRank(D, t) < 7)
       => \E D \in Documents :
            /\ D.id = response.id
            /\ \A E \in Documents : SubstringRank(D, t) <= SubstringRank(E, t)

\* C13: an input that equals the id of a document up to letter case
\* resolves to that document.
C13_IdCaseInsensitive ==
  \A D \in Documents :
    (IsResolveCall /\ ToLower(request.arguments.input) = ToLower(D.id))
      => response.id = D.id

\* the SR numbers the input x stands for: x itself and x without a leading
\* "SR ", when that is a dotted number
SrNumbersOfInput(x) ==
  {n \in {x} \cup (IF Len(x) > 3 /\ SubSeq(x, 1, 3) = <<"S", "R", " ">>
                   THEN {SubSeq(x, 4, Len(x))} ELSE {}) :
     n # <<>> /\ SrNumberOf(n) = n}

\* C14: an SR number, written n or "SR n", resolves to the document whose
\* id is "sr-" followed by the dash form of n.
C14_SrNumberResolves ==
  IsResolveCall =>
    \A D \in Documents : \A n \in SrNumbersOfInput(request.arguments.input) :
      D.id = <<"s", "r", "-">> \o DotsToDashes(n) => response.id = D.id

\* the provenance block without freshness
Provenance ==
  [data_source  |-> "Fedlex (fedlex.admin.ch) - Swiss Federal Chancellery",
   jurisdiction |-> "CH",
   disclaimer   |-> "This data is sourced from Fedlex under Open Government Data principles. ..."]

\* C16: every result of validate_citation and of format_citation is an
\* envelope {results, _metadata} whose _metadata carries the same
\* data_source, jurisdiction and disclaimer.
C16_UniformEnvelope ==
  (IsValidateCall \/ IsFormatCall)
    => /\ {"results", "_metadata"} \subseteq DOMAIN response
       /\ \A k \in DOMAIN Provenance : response._metadata[k] = Provenance[k]

\* C17: when the db_metadata table is absent or holds no built_at row, the
\* tool result still carries data_source, jurisdiction and disclaimer, with
\* no freshness field.
C17_MetadataFailureSwallowed ==
  (/\ IsValidateCall
   /\ \/ ~db.db_metadata.table
      \/ \A i \in 1..Len(db.db_metadata.rows) : db.db_metadata.rows[i].key # "built_at")
    => /\ "results" \in DOMAIN response
       /\ response._metadata = Provenance

\* a valid citation answered by a store without the db_metadata table
C17_Witness ==
  /\ IsValidateCall
  /\ ~db.db_metadata.table
  /\ response.results.valid = TRUE
  /\ response._metadata = Provenance

(***************************************************************************)
(* The parser on its own: parseCitation applied to bounded inputs          *)
(***************************************************************************)

\* law names are made of at most this many pieces
MaxLawPieces == 3

\* the pieces of a law name: the word "Art" in both letter cases, another
\* letter, a digit, the separators, a blank and a line terminator
LawPieces ==
  { <<"A", "r", "t">>, <<"a", "r", "t">>, <<"x">>, <<"5">>,
    <<".">>, <<",">>, <<";">>, <<" ">>, <<"\n">> }

RECURSIVE StringsUpTo(_)
\* the concatenations of at most n pieces
StringsUpTo(n) ==
  IF n = 0 THEN {<<>>}
  ELSE StringsUpTo(n - 1) \cup {x \o c : x \in StringsUpTo(n - 1), c \in LawPieces}

\* non-empty, without surrounding whitespace
LawNames ==
  {L \in StringsUpTo(MaxLawPieces) :
     L # <<>> /\ L[1] \notin WhiteSpace /\ L[Len(L)] \notin WhiteSpace}

ParseTokens == { <<"6">>, <<"6", "b", "i", "s">> }

\* article tokens with an uppercase letter and with the number zero
OddTokens == { <<"6", "A">>, <<"0">> }

\* "SR" gap number sep " Art. " N
SrExplicit(gap, number, sep, N) ==
  <<"S", "R">> \o gap \o number \o sep \o <<" ", "A", "r", "t", ".", " ">> \o N

SrNumbers == { <<"2">>, <<"2", ".", "1">> }

ParseRequest(form, L, N, citation) ==
  [tool |-> "parseCitation", form |-> form, law |-> L, token |-> N, citation |-> citation]

ParseRequests ==
  {ParseRequest("ArticleFirst", L, N, ArticleFirst(N, L)) : L \in LawNames, N \in ParseTokens}
    \cup {ParseRequest("LawFirstComma", L, N, LawFirstComma(L, N)) : L \in LawNames, N \in ParseTokens}
    \cup {ParseRequest("LawFirst", L, N, LawFirst(L, N)) : L \in LawNames, N \in ParseTokens}
    \cup {ParseRequest("SrExplicit", number, N, SrExplicit(gap, number, sep, N)) :
            gap \in {<<>>, <<" ">>, <<" ", " ">>}, number \in SrNumbers,
            sep \in {<<>>, <<",">>, <<";">>}, N \in ParseTokens}
    \cup {ParseRequest("ArticleFirst", <<"x">>, N, ArticleFirst(N, <<"x">>)) : N \in OddTokens}
    \cup {ParseRequest("LawFirst", <<"x">>, N, LawFirst(<<"x">>, N)) : N \in OddTokens}
    \cup {ParseRequest("Bare", L, <<>>, <<" ">> \o L \o <<" ">>) : L \in LawNames}
    \cup {ParseRequest("Ambiguous", <<"O", "R">>, <<"5">>,
                       <<"A", "r", "t", ".", " ", "5", " ", "O", "R", " ",
                         "A", "r", "t", ".", " ", "6">>)}

EmptyStore ==
  [legal_documents |-> <<>>, legal_provisions |-> <<>>,
   db_metadata |-> [table |-> FALSE, rows |-> <<>>]]

InitParse ==
  /\ db = EmptyStore
  /\ context = undefined
  /\ request \in ParseRequests
  /\ response = undefined
  /\ held = null
  /\ FetcherAtStart

\* validateCitationTool, const parsed = parseCitation(input.citation)
ParseCitation ==
  /\ request.tool = "parseCitation"
  /\ response = undefined
  /\ response' = parseCitation(request.citation)
  /\ UNCHANGED <<fetcher, db, context, request, held>>

NextParse == ParseCitation

SpecParse == InitParse /\ [][NextParse]_vars

IsParsed == request.tool = "parseCitation" /\ response # undefined

LawForms == {"ArticleFirst", "LawFirstComma", "LawFirst"}

\* C5 as stated: for a law name L that is non-empty, has no surrounding
\* whitespace and does not contain "Art", the forms "Art. N L", "L, Art. N"
\* and "L Art. N" all parse to {documentRef: L, articleRef: N}.
C5_Original ==
  (/\ IsParsed
   /\ request.form \in LawForms
   /\ ~Occurs(<<"A", "r", "t">>, request.law))
    => response = [documentRef |-> request.law, articleRef |-> request.token]

\* C5 (amended): the same for a law name that contains "Art" in no letter
\* case, contains no line terminator and does not end with "," or ";".
C5_FormsAgree ==
  (/\ IsParsed
   /\ request.form \in LawForms
   /\ ~Occurs(<<"a", "r", "t">>, ToLower(request.law))
   /\ \A i \in 1..Len(request.law) : request.law[i] \notin LineTerminators
   /\ request.law[Len(request.law)] \notin {",", ";"})
    => response = [documentRef |-> request.law, articleRef |-> request.token]

\* a law-first citation of a law name with a blank and a suffixed token
C5_Witness ==
  /\ IsParsed
  /\ request.form = "LawFirstComma"
  /\ Occurs(<<" ">>, request.law)
  /\ request.token = <<"6", "b", "i", "s">>
  /\ response = [documentRef |-> request.law, articleRef |-> request.token]

\* C6: a citation of the explicit numbering form parses to documentRef
\* "SR " + number and articleRef the token, with or without whitespace
\* between "SR" and the number.
C6_SrExplicitNormalised ==
  (IsParsed /\ request.form = "SrExplicit")
    => response = [documentRef |-> <<"S", "R", " ">> \o request.law,
                   articleRef |-> request.token]

IsArticleToken(t) ==
  \E n \in 1..Len(t) :
    /\ \A i \in 1..n : t[i] \in Digits
    /\ \E i \in 1..n : t[i] # "0"
    /\ \E suffix \in LatinSuffixes \cup {<<>>} :
         /\ n + Len(suffix) <= Len(t)
         /\ SubSeq(t, n + 1, n + Len(suffix)) = suffix
         /\ \A i \in (n + Len(suffix) + 1)..Len(t) : t[i] \in LowerLetters

\* C21: every articleRef that parseCitation returns is a positive integer,
\* optionally followed by one suffix of the closed set, optionally followed
\* by lowercase letters only.
C21_ArticleRefGrammar ==
  (IsParsed /\ "articleRef" \in DOMAIN response)
    => IsArticleToken(response.articleRef)

(***************************************************************************)
(* registerTools: the tools/list and tools/call handlers                   *)
(***************************************************************************)

\* the names of TOOLS, in order
TOOLS ==
  << "search_legislation", "get_provision", "validate_citation",
     "build_legal_stance", "format_citation", "check_currency",
     "get_eu_basis", "get_swiss_implementations", "search_eu_implementations",
     "get_provision_eu_basis", "validate_eu_compliance" >>

LIST_SOURCES_TOOL == "list_sources"

ABOUT_TOOL == "about"

\* buildTools: the probe of the definitions table changes nothing, whether
\* it finds the table or throws
buildTools(d, ctx) ==
  LET tools == TOOLS \o <<LIST_SOURCES_TOOL>>
  IN IF ctx # undefined THEN Append(tools, ABOUT_TOOL) ELSE tools

\* what a call of a tool implementation does: it returns a value or throws
Returned(value) == [threw |-> FALSE, value |-> value]

Thrown(message) == [threw |-> TRUE, message |-> message]

\* validateCitationTool called with the arguments of the request as they come
validateCitationCall(d, args) ==
  IF args = undefined
    THEN Thrown("Cannot read properties of undefined (reading 'citation')")
  ELSE IF "citation" \notin DOMAIN args
    THEN Thrown("Cannot read properties of undefined (reading 'trim')")
  ELSE Returned(validateCitationTool(d, args))

\* formatCitationTool called with the arguments of the request as they come
formatCitationCall(args) ==
  IF args = undefined
    THEN Thrown("Cannot read properties of undefined (reading 'format')")
  ELSE IF "citation" \notin DOMAIN args
    THEN Thrown("Cannot read properties of undefined (reading 'trim')")
  ELSE Returned(formatCitationTool(args))

\* the tools implemented in other files: a call returns some result or
\* throws some error
OtherToolOutcomes ==
  { Returned([results |-> <<>>]), Thrown("no such table: eu_references") }

\* the cases of the switch over the tool name
ToolOutcomes(d, name, args) ==
  IF name = "validate_citation" THEN {validateCitationCall(d, args)}
  ELSE IF name = "format_citation" THEN {formatCitationCall(args)}
  ELSE OtherToolOutcomes

\* a text with one placeholder filled in
Text(template, arg) == [template |-> template, arg |-> arg]

\* content: [{ type: 'text', text }]
TextContent(text) == <<[type |-> "text", text |-> text]>>

ErrorReply(text) == [content |-> TextContent(text), isError |-> TRUE]

\* mutant: an exception of the tool implementation leaves the handler
OutcomeReply_NoCatch(outcome) ==
  IF outcome.threw THEN outcome
  ELSE [content |-> TextContent([json |-> outcome.value])]

\* the reply after the switch: the result as JSON text, or the catch clause
OutcomeReply(outcome) ==
  IF outcome.threw THEN ErrorReply(Text("Error: ${1}", outcome.message))
  ELSE [content |-> TextContent([json |-> outcome.value])]

\* the replies of the tools/call handler to a request
CallToolReplies(d, ctx, name, args) ==
  IF name = ABOUT_TOOL /\ ctx = undefined
    THEN {ErrorReply(Text("About tool not configured.", <<>>))}
  ELSE IF name \notin {TOOLS[i] : i \in 1..Len(TOOLS)} \cup {LIST_SOURCES_TOOL, ABOUT_TOOL}
    THEN {ErrorReply(Text("Error: Unknown tool \"${1}\".", name))}
  ELSE {OutcomeReply(o) : o \in ToolOutcomes(d, name, args)}

\* the tables a store may lack
OptionalTables == {"definitions", "eu_documents", "eu_references"}

\* the stores the handlers are registered with: at most one document, in
\* force, with any of the optional tables
HandlerStores ==
  {s @@ [tables |-> T] :
     s \in {x \in Stores : /\ Len(x.legal_documents) <= 1
                            /\ \A i \in 1..Len(x.legal_documents) :
                                 x.legal_documents[i].status = "in_force"},
     T \in SUBSET OptionalTables}

\* the AboutContext the server may be registered with
Contexts == {undefined, [version |-> "1.0.0"]}

\* request.params.name
ToolNames ==
  {TOOLS[i] : i \in 1..Len(TOOLS)} \cup {LIST_SOURCES_TOOL, ABOUT_TOOL, "no_such_tool"}

\* request.params.arguments
ToolArguments ==
  { undefined,
    [format |-> "full"],
    [citation |-> <<"A", "r", "t", ".", " ", "6", " ", "O", "R">>],
    [citation |-> <<"C", "o", "d", "e", " ", "(", "C", "O", ")">>, format |-> "short"] }

InitHandler ==
  /\ db \in HandlerStores
  /\ context \in Contexts
  /\ request = NoRequest
  /\ response = undefined
  /\ held = null
  /\ FetcherAtStart

\* the handler of ListToolsRequestSchema
ListTools ==
  /\ request = NoRequest
  /\ request' = [tool |-> "tools/list"]
  /\ response' = [tools |-> buildTools(db, context)]
  /\ held' = null
  /\ UNCHANGED <<fetcher, db, context>>

\* the handler of CallToolRequestSchema
CallTool(name, args) ==
  /\ request = NoRequest
  /\ request' = [tool |-> "tools/call", params |-> [name |-> name, arguments |-> args]]
  /\ response' \in CallToolReplies(db, context, name, args)
  /\ held' = null
  /\ UNCHANGED <<fetcher, db, context>>

NextHandler ==
  \/ ListTools
  \/ \E name \in ToolNames, args \in ToolArguments : CallTool(name, args)
  \/ Return

SpecHandler == InitHandler /\ [][NextHandler]_vars

IsListTools == request.tool = "tools/list"

IsCallTool == request.tool = "tools/call"

\* C15: the tools/call handler answers every request with a reply: an
\* unknown tool name with an error-flagged reply that names the tool, an
\* exception of the tool implementation with the error-flagged reply
\* "Error: <message>", and nothing leaves the handler as an exception.
C15_HandlerAlwaysReplies ==
  IsCallTool =>
    LET name == request.params.name
        args == request.params.arguments
    IN /\ DOMAIN response \in {{"content"}, {"content", "isError"}}
       /\ "isError" \in DOMAIN response => response.isError = TRUE
       /\ name = "no_such_tool" =>
            response = ErrorReply(Text("Error: Unknown tool \"${1}\".", name))
       /\ (name \in {"validate_citation", "format_citation"}
              /\ (args = undefined \/ "citation" \notin DOMAIN args)) =>
            /\ "isError" \in DOMAIN response
            /\ response.content[1].text.template = "Error: ${1}"
       /\ (name \in {"validate_citation", "format_citation"}
              /\ args # undefined /\ "citation" \in DOMAIN args) =>
            "isError" \notin DOMAIN response

\* a call of validate_citation without arguments was answered with the
\* message of the exception
C15_Witness ==
  /\ IsCallTool
  /\ request.params.name = "validate_citation"
  /\ request.params.arguments = undefined
  /\ response = ErrorReply(Text("Error: ${1}",
                   "Cannot read properties of undefined (reading 'citation')"))

\* the tools that read the EU cross-reference tables
EuTools ==
  { "get_eu_basis", "get_swiss_implementations", "search_eu_implementations",
    "get_provision_eu_basis", "validate_eu_compliance" }

\* C19: a tool of the EU cross-references is in the tools/list result only
\* when the store has the EU cross-reference tables.
C19_CapabilityGating ==
  IsListTools =>
    \A i \in 1..Len(response.tools) :
      response.tools[i] \in EuTools
        => {"eu_documents", "eu_references"} \subseteq db.tables

(***************************************************************************)
(* Repeated calls: a client that keeps one answered call and repeats it    *)
(***************************************************************************)

\* the stores of the repeated calls: at most one document
RepeatStores == {x \in Stores : Len(x.legal_documents) <= 1}

\* the citations of the repeated calls
RepeatCitations ==
  { <<>>,
    <<"O", "R">>,
    <<"X", "Y">>,
    ArticleFirst(<<"6">>, <<"O", "R">>),
    ArticleFirst(<<"7">>, <<"O", "R">>),
    LawFirstComma(<<"C", "o", "d", "e", " ", "(", "C", "O", ")">>, <<"6", "b", "i", "s">>) }

InitRepeat ==
  /\ db \in RepeatStores
  /\ context = undefined
  /\ request = NoRequest
  /\ response = undefined
  /\ held = undefined
  /\ FetcherAtStart

\* case 'validate_citation' of the call-tool handler
ValidateAgain(citation) ==
  /\ request = NoRequest
  /\ request' = [tool |-> "validate_citation", arguments |-> [citation |-> citation]]
  /\ response' = validateCitationTool(db, [citation |-> citation])
  /\ UNCHANGED <<fetcher, db, context, held>>

\* case 'format_citation' of the call-tool handler
FormatAgain(citation, format) ==
  /\ request = NoRequest
  /\ request' = [tool |-> "format_citation",
                 arguments |-> [citation |-> citation, format |-> format]]
  /\ response' = formatCitationTool([citation |-> citation, format |-> format])
  /\ UNCHANGED <<fetcher, db, context, held>>

\* another tool resolves a document reference in between
ResolveBetween(input) ==
  /\ request = NoRequest
  /\ request' = [tool |-> "resolveDocumentId", arguments |-> [input |-> input]]
  /\ response' = [id |-> resolveDocumentId(db, input)]
  /\ UNCHANGED <<fetcher, db, context, held>>

\* the response is delivered and the client keeps the call and its answer
Remember ==
  /\ request # NoRequest
  /\ held = undefined
  /\ held' = [request |-> request, response |-> response]
  /\ request' = NoRequest
  /\ response' = undefined
  /\ UNCHANGED <<fetcher, db, context>>

\* the response is delivered
Deliver ==
  /\ request # NoRequest
  /\ request' = NoRequest
  /\ response' = undefined
  /\ UNCHANGED <<fetcher, db, context, held>>

NextRepeat ==
  \/ \E citation \in RepeatCitations : ValidateAgain(citation)
  \/ \E citation \in RepeatCitations, format \in Formats : FormatAgain(citation, format)
  \/ \E input \in RepeatCitations : ResolveBetween(input)
  \/ Remember
  \/ Deliver

SpecRepeat == InitRepeat /\ [][NextRepeat]_vars

MAX_PER_QUERY == 950

\* the works of one SR number come alone or in a group of this size
GroupSize == 500

\* at most this many SR numbers carry a group
MaxGroups == 2

\* the SR numbers a corpus is made of
CensusNumbers ==
  { <<"1", "0", "1">>,
    <<"1", "0", "1", ".", "1">>,
    <<"1", "0", "1", ".", "1", "1">>,
    <<"1", "0", "1", ".", "2">>,
    <<"0", ".", "1", "0", "1">>,
    <<"2", "3", "5", ".", "1">> }

\* a corpus gives the number of works classified under each SR number
Corpora ==
  {corpus \in [CensusNumbers -> {0, 1, GroupSize}] :
     Cardinality({n \in CensusNumbers : corpus[n] = GroupSize}) <= MaxGroups}

\* STRSTARTS(STR(?srNumber), prefix)
StartsWith(s, prefix) ==
  Len(prefix) <= Len(s) /\ SubSeq(s, 1, Len(prefix)) = prefix

\* the works the endpoint holds (?work ... skos:notation ?srNumber), the
\* works of one SR number taken together
WorksOf(corpus) ==
  {[srNumber |-> n, works |-> corpus[n]] : n \in {m \in DOMAIN corpus : corpus[m] > 0}}

\* the bindings of the SELECT of fetchByPrefix
fetchByPrefix(corpus, prefix) ==
  {w \in WorksOf(corpus) : StartsWith(w.srNumber, prefix)}

RECURSIVE CountWorks(_)
\* COUNT(DISTINCT ?work)
CountWorks(W) ==
  IF W = {} THEN 0
  ELSE LET w == CHOOSE x \in W : TRUE IN w.works + CountWorks(W \ {w})

\* SELECT (COUNT(DISTINCT ?work) AS ?total) with the prefix filter
countByPrefix(corpus, prefix) == CountWorks(fetchByPrefix(corpus, prefix))

\* String(i)
DigitChar(i) == <<"0", "1", "2", "3", "4", "5", "6", "7", "8", "9">>[i + 1]

\* the sub-prefixes partitionPrefix generates for a prefix
subPrefixes(prefix) ==
  IF prefix = <<>>
    THEN << <<"0", ".">> >> \o [i \in 1..9 |-> <<DigitChar(i)>>]
  ELSE IF prefix = <<"0", ".">>
    THEN [i \in 1..9 |-> <<"0", ".", DigitChar(i)>>]
  ELSE IF prefix[Len(prefix)] # "."
    THEN << prefix \o <<".">> >> \o [i \in 1..10 |-> prefix \o <<DigitChar(i - 1)>>]
  ELSE [i \in 1..10 |-> prefix \o <<DigitChar(i - 1)>>]

RECURSIVE partitionPrefix(_, _)
RECURSIVE partitionEach(_, _, _)
\* the loop over the sub-prefixes, from the i-th on
partitionEach(corpus, subs, i) ==
  IF i > Len(subs) THEN <<>>
  ELSE partitionPrefix(corpus, subs[i]) \o partitionEach(corpus, subs, i + 1)

partitionPrefix(corpus, prefix) ==
  IF countByPrefix(corpus, prefix) <= MAX_PER_QUERY
    THEN <<prefix>>
    ELSE partitionEach(corpus, subPrefixes(prefix), 1)

InitCensus ==
  /\ db = EmptyStore
  /\ context = undefined
  /\ request \in {[tool |-> "census", corpus |-> corpus] : corpus \in Corpora}
  /\ response = undefined
  /\ held = null
  /\ FetcherAtStart

\* fetchAllActs, phase 1: const prefixes = await partitionPrefix('')
PartitionPrefix ==
  /\ request.tool = "census"
  /\ response = undefined
  /\ response' = [prefixes |-> partitionPrefix(request.corpus, <<>>), i |-> 0, acts |-> {}]
  /\ UNCHANGED <<fetcher, db, context, request, held>>

\* fetchAllActs, phase 2: one turn of the loop over the prefixes
FetchByPrefix ==
  /\ request.tool = "census"
  /\ response # undefined
  /\ response.i < Len(response.prefixes)
  /\ response' = [response EXCEPT
                    !.i = @ + 1,
                    !.acts = @ \cup fetchByPrefix(request.corpus, response.prefixes[response.i + 1])]
  /\ UNCHANGED <<fetcher, db, context, request, held>>

NextCensus == PartitionPrefix \/ FetchByPrefix

SpecCensus == InitCensus /\ [][NextCensus]_vars

IsPartitioned == request.tool = "census" /\ response # undefined

\* the prefixes of the partition that an SR number starts with
CoveringPrefixes(n) ==
  {i \in 1..Len(response.prefixes) : StartsWith(n, response.prefixes[i])}

\* C22: every SR number of the corpus starts with exactly one prefix that
\* partitionPrefix("") returns, and each returned prefix has at most 950
\* acts.
C22_PartitionCoversCorpus ==
  IsPartitioned =>
    /\ \A n \in CensusNumbers :
         request.corpus[n] > 0 => Cardinality(CoveringPrefixes(n)) = 1
    /\ \A i \in 1..Len(response.prefixes) :
         countByPrefix(request.corpus, response.prefixes[i]) <= MAX_PER_QUERY

(***************************************************************************)
(* The Fedlex HTML parser: one act's page to its provisions                *)
(*                                                                         *)
(* A page is the sequence of its <article> elements.  Markup and text are  *)
(* kept as pieces: a tag, white space, or a run of text characters given   *)
(* by its length.                                                          *)
(***************************************************************************)

\* a page has at most this many <article> elements
MaxArticles == 2

Tag == [kind |-> "tag", chars |-> 0]

Blank == [kind |-> "space", chars |-> 1]

TextRun(n) == [kind |-> "text", chars |-> n]

RECURSIVE StripLength(_, _, _, _)
\* the length of what stripHtml leaves of the pieces from the i-th on: tags
\* become blanks, runs of white space collapse to one blank, the ends are
\* trimmed
StripLength(pieces, i, started, gap) ==
  IF i > Len(pieces) THEN 0
  ELSE IF pieces[i].kind = "text"
    THEN (IF started /\ gap THEN 1 ELSE 0) + pieces[i].chars
           + StripLength(pieces, i + 1, TRUE, FALSE)
  ELSE StripLength(pieces, i + 1, started, TRUE)

\* stripHtml, as the number of characters of its result
stripHtml(pieces) == StripLength(pieces, 1, FALSE, FALSE)

\* the values of the id attribute behind "art_"
ArticleIds == { <<"5">>, <<"5", "_", "a">>, <<"5", "a">> }

\* the h6 heading of an article: none, one whose bold text is no article
\* number, or one with <b>Art. 5a</b>
Headings == { undefined, [b |-> null], [b |-> <<"5", "a">>] }

\* the markup of a heading: <h6><a><b>, the bold text, </b></a></h6>
HeadingPieces(heading) ==
  IF heading = undefined THEN <<>>
  ELSE IF heading.b = null THEN <<Tag, TextRun(5), Tag>>
  ELSE <<Tag, TextRun(4), Blank, TextRun(Len(heading.b)), Tag>>

\* what follows the heading: with or without the <div class="collapseable">
Bodies ==
  { [collapseable |-> TRUE, pieces |-> <<TextRun(4), Tag>>],
    [collapseable |-> TRUE, pieces |-> <<TextRun(4), Tag, TextRun(1)>>],
    [collapseable |-> TRUE, pieces |-> <<TextRun(7996), Tag, Blank, TextRun(4)>>],
    [collapseable |-> FALSE, pieces |-> <<TextRun(4)>>] }

Articles ==
  {[id |-> id, heading |-> heading, body |-> b] :
     id \in ArticleIds, heading \in Headings, b \in Bodies}

RECURSIVE Pages(_)
\* the pages of at most n articles, the id attributes distinct
Pages(n) ==
  IF n = 0 THEN {<<>>}
  ELSE Pages(n - 1)
         \cup UNION {{Append(page, a) :
                        a \in {x \in Articles : \A i \in 1..Len(page) : page[i].id # x.id}} :
                     page \in {p \in Pages(n - 1) : Len(p) = n - 1}}

RECURSIVE WithoutUnderscores(_)
\* articleNum.replace(/_/g, '')
WithoutUnderscores(s) ==
  IF s = <<>> THEN <<>>
  ELSE IF s[1] = "_" THEN WithoutUnderscores(Tail(s))
  ELSE <<s[1]>> \o WithoutUnderscores(Tail(s))

\* let articleNum = articleMatch.id; ... articleNum = artNumMatch[1]
ArticleNum(article) ==
  IF article.heading # undefined /\ article.heading.b # null
    THEN article.heading.b
    ELSE article.id

\* the content of an article: the collapseable div stripped, or else the
\* whole article stripped
ArticleContent(article) ==
  IF article.body.collapseable
    THEN stripHtml(article.body.pieces)
    ELSE stripHtml(<<Tag>> \o HeadingPieces(article.heading) \o article.body.pieces)

\* the provision pushed for an article
PushedProvision(article) ==
  [provision_ref |-> <<"a", "r", "t">> \o WithoutUnderscores(ArticleNum(article)),
   section |-> WithoutUnderscores(ArticleNum(article)),
   title |-> <<>>,
   content |-> IF ArticleContent(article) > 8000 THEN 8000 ELSE ArticleContent(article)]

RECURSIVE ParseArticles(_, _)
\* the loop over the articles of the page, from the i-th on
ParseArticles(page, i) ==
  IF i > Len(page) THEN <<>>
  ELSE IF ArticleContent(page[i]) < 5 THEN ParseArticles(page, i + 1)
  ELSE <<PushedProvision(page[i])>> \o ParseArticles(page, i + 1)

parseFedlexHtml(page) == [provisions |-> ParseArticles(page, 1)]

InitHtml ==
  /\ db = EmptyStore
  /\ context = undefined
  /\ request \in {[tool |-> "parseFedlexHtml", html |-> page] : page \in Pages(MaxArticles)}
  /\ response = undefined
  /\ held = null
  /\ FetcherAtStart

\* const parsed = parseFedlexHtml(html, act)
ParseFedlexHtml ==
  /\ request.tool = "parseFedlexHtml"
  /\ response = undefined
  /\ response' = parseFedlexHtml(request.html)
  /\ UNCHANGED <<fetcher, db, context, request, held>>

NextHtml == ParseFedlexHtml

SpecHtml == InitHtml /\ [][NextHtml]_vars

IsParsedHtml == request.tool = "parseFedlexHtml" /\ response # undefined

\* C23: the provisions emitted for one act have pairwise distinct
\* provision_ref values, each is "art" followed by the section and holds no
\* underscore, and each content has between 5 and 8000 characters.
C23_ProvisionsWellFormed ==
  IsParsedHtml =>
    /\ \A i, j \in 1..Len(response.provisions) :
         i # j => response.provisions[i].provision_ref # response.provisions[j].provision_ref
    /\ \A i \in 1..Len(response.provisions) :
         /\ response.provisions[i].provision_ref
              = <<"a", "r", "t">> \o response.provisions[i].section
         /\ \A k \in 1..Len(response.provisions[i].provision_ref) :
              response.provisions[i].provision_ref[k] # "_"
         /\ response.provisions[i].content >= 5
         /\ response.provisions[i].content <= 8000

(***************************************************************************)
(* format_citation on its own, and applied to its own output               *)
(***************************************************************************)

\* the law names of the citations to format: one piece shorter than those
\* of the parser, each citation being formatted twice
FormatLaws ==
  {L \in StringsUpTo(MaxLawPieces - 1) :
     L # <<>> /\ L[1] \notin WhiteSpace /\ L[Len(L)] \notin WhiteSpace}

\* "L , Art. N"
LawFirstSpaced(L, N) == L \o <<" ", ",", " ", "A", "r", "t", ".", " ">> \o N

\* the citations sent to format_citation
FormatCitations ==
  UNION {{ArticleFirst(N, L), LawFirstComma(L, N), LawFirst(L, N), LawFirstSpaced(L, N)} :
           L \in FormatLaws, N \in ParseTokens \cup OddTokens}
    \cup {<<" ">> \o L \o <<" ">> : L \in FormatLaws}
    \cup {SrExplicit(<<" ">>, number, <<",">>, <<"6">>) : number \in SrNumbers}
    \cup {<<"A", "r", "t", ".", " ", "5", " ", "O", "R", " ", "A", "r", "t", ".", " ", "6">>}

InitFormat ==
  /\ db = EmptyStore
  /\ context = undefined
  /\ request \in {[tool |-> "format_citation",
                    arguments |-> [citation |-> citation, format |-> format]] :
                     citation \in FormatCitations, format \in Formats}
  /\ response = undefined
  /\ held = null
  /\ FetcherAtStart

\* case 'format_citation' of the call-tool handler
FormatOnce ==
  /\ request.tool = "format_citation"
  /\ response = undefined
  /\ response' = formatCitationTool(request.arguments)
  /\ UNCHANGED <<fetcher, db, context, request, held>>

\* the client keeps the formatted citation and has it formatted again, in
\* the same format
FormatFormatted ==
  /\ request.tool = "format_citation"
  /\ response # undefined
  /\ held = null
  /\ held' = response.formatted
  /\ request' = [request EXCEPT !.arguments.citation = response.formatted]
  /\ response' = formatCitationTool([citation |-> response.formatted,
                                     format |-> request.arguments.format])
  /\ UNCHANGED <<fetcher, db, context>>

NextFormat == FormatOnce \/ FormatFormatted

SpecFormat == InitFormat /\ [][NextFormat]_vars

IsFormattedAgain ==
  request.tool = "format_citation" /\ response # undefined /\ held # null

\* C24: in format "full", formatting the formatted output of a citation
\* again returns the same formatted string.
C24_FullIdempotent ==
  (IsFormattedAgain /\ request.arguments.format = "full")
    => response.formatted = held

IsFormattedOnce ==
  request.tool = "format_citation" /\ response # undefined /\ held = null

maxRetries == 3

\* time passes in steps of half the minimum delay
TickMs == MIN_DELAY_MS \div 2

\* the clock is followed for this many steps
MaxTicks == 9

\* the status codes of a response: delivered, or to be retried
ResponseStatuses == {200, 429}

\* Math.pow(2, attempt + 1) * 1000
Backoff(attempt) == (2 ^ (attempt + 1)) * 1000

\* fetchWithRateLimit is called: rateLimit runs up to its await, or, when
\* enough time has passed since lastRequestTime, through to the first
\* fetch(url) of the loop; calls are numbered in the order they are made
CallFetch(c) ==
  /\ calls[c].pc = "idle"
  /\ \A b \in 1..(c - 1) : calls[b].pc # "idle"
  /\ IF clock - lastRequestTime < MIN_DELAY_MS
       THEN /\ calls' = [calls EXCEPT ![c].pc = "waiting",
                                      ![c].due = clock + (MIN_DELAY_MS - (clock - lastRequestTime))]
            /\ UNCHANGED <<lastRequestTime, requests>>
       ELSE /\ calls' = [calls EXCEPT ![c].pc = "fetching"]
            /\ lastRequestTime' = clock
            /\ requests' = requests \cup {[call |-> c, time |-> clock]}
  /\ UNCHANGED <<db, context, request, response, held, clock>>

\* the timer of rateLimit fires: lastRequestTime = Date.now(), rateLimit
\* returns and the first fetch(url) of the loop is issued
WakeUp(c) ==
  /\ calls[c].pc = "waiting"
  /\ clock >= calls[c].due
  /\ calls' = [calls EXCEPT ![c].pc = "fetching"]
  /\ lastRequestTime' = clock
  /\ requests' = requests \cup {[call |-> c, time |-> clock]}
  /\ UNCHANGED <<db, context, request, response, held, clock>>

\* the response arrives: 429 or 5xx with retries left starts the backoff
\* timer, anything else is returned
Respond(c, status) ==
  /\ calls[c].pc = "fetching"
  /\ IF status = 429 /\ calls[c].attempt < maxRetries
       THEN calls' = [calls EXCEPT ![c].pc = "backoff",
                                   ![c].due = clock + Backoff(calls[c].attempt)]
       ELSE calls' = [calls EXCEPT ![c].pc = "done"]
  /\ UNCHANGED <<db, context, request, response, held, clock, lastRequestTime, requests>>

\* the backoff timer fires: continue, the next fetch(url) of the loop
Retry(c) ==
  /\ calls[c].pc = "backoff"
  /\ clock >= calls[c].due
  /\ requests' = requests \cup {[call |-> c, time |-> clock]}
  /\ calls' = [calls EXCEPT ![c].pc = "fetching", ![c].attempt = @ + 1]
  /\ UNCHANGED <<db, context, request, response, held, clock, lastRequestTime>>

\* time passes
Tick ==
  /\ clock + TickMs <= 2 * MIN_DELAY_MS + MaxTicks * TickMs
  /\ clock' = clock + TickMs
  /\ UNCHANGED <<db, context, request, response, held, lastRequestTime, calls, requests>>

InitFetcher ==
  /\ db = EmptyStore
  /\ context = undefined
  /\ request = NoRequest
  /\ response = undefined
  /\ held = null
  /\ FetcherAtStart

NextFetcher ==
  \/ \E c \in 1..MaxCalls : CallFetch(c)
  \/ \E c \in 1..MaxCalls : WakeUp(c)
  \/ \E c \in 1..MaxCalls, status \in ResponseStatuses : Respond(c, status)
  \/ \E c \in 1..MaxCalls : Retry(c)
  \/ Tick

SpecFetcher == InitFetcher /\ [][NextFetcher]_vars

\* C26: the HTTP requests of two calls of fetchWithRateLimit are issued at
\* least 500 ms apart, also when the calls run concurrently.
C26_RequestsSpaced ==
  \A r1, r2 \in requests :
    (r1.call # r2.call /\ r1.time <= r2.time) => r2.time - r1.time >= MIN_DELAY_MS

====
